---- MODULE Spec2Model ----
(***************************************************************************)
(* The "favorite things" Streamlit application (src/app.py).               *)
(*                                                                         *)
(* The script is executed top to bottom once per user interaction (a       *)
(* "pass").  The model follows one browser session through its passes,     *)
(* section by section, against a PostgreSQL store that holds the table     *)
(* favorite_things and possibly the legacy table ulubione_rzeczy.  A       *)
(* second session of the same application is represented by the           *)
(* statements it executes and commits (INSERT, DELETE, DROP TABLE, CREATE   *)
(* TABLE, the migration's renames), which may land between any two         *)
(* statements of the first: between a check of the migration block and     *)
(* the statements that follow it, between an INSERT and its commit.        *)
(***************************************************************************)
EXTENDS Integers, Sequences, FiniteSets, TLC

(* ------------------------------ bounds -------------------------------- *)

\* name VARCHAR(255)
VarcharLimit == 255

\* Largest id the SERIAL sequence hands out in the model.
MaxId == 2

\* s repeated k times.
RECURSIVE Rep(_, _)
Rep(s, k) == IF k = 0 THEN "" ELSE s \o Rep(s, k - 1)

\* A name one character longer than the column, the last one a blank.
LongPaddedName == Rep("a", VarcharLimit) \o " "

\* What is typed into the form: the empty name, a short name (a single blank)
\* and an over-long one, with an empty or a non-empty description.
Submissions ==
    {[name |-> "", description |-> "d"],
     [name |-> " ", description |-> ""],
     [name |-> LongPaddedName, description |-> "d"]}

(* --------------------------- pure functions --------------------------- *)

\* Python truth value of a str: the empty string is false, any other true.
TruthyAlways(s) == TRUE

Truthy(s) == Len(s) > 0

DigitChar(d) ==
    CASE d = 0 -> "0" [] d = 1 -> "1" [] d = 2 -> "2" [] d = 3 -> "3"
      [] d = 4 -> "4" [] d = 5 -> "5" [] d = 6 -> "6" [] d = 7 -> "7"
      [] d = 8 -> "8" [] d = 9 -> "9"

\* str(id) of a positive integer.
RECURSIVE Str(_)
Str(n) == IF n < 10 THEN DigitChar(n)
          ELSE Str(n \div 10) \o DigitChar(n % 10)

\* f"{row.id}: {row.name}"
Label(row) == Str(row.id) \o ": " \o row.name

\* selected_option_str.split(': ', 1)[1]
SplitName(label) ==
    LET hits == {i \in 1..(Len(label) - 1) : SubSeq(label, i, i + 1) = ": "}
        first == CHOOSE i \in hits : \A j \in hits : i <= j
    IN  SubSeq(label, first + 2, Len(label))

\* {label: row.id for row in df.itertuples()}: a later row overwrites an
\* earlier one with the same label.
DeleteOptions(df) ==
    [l \in {Label(df[i]) : i \in DOMAIN df} |->
        LET at == {i \in DOMAIN df : Label(df[i]) = l}
            last == CHOOSE i \in at : \A j \in at : j <= i
        IN  df[last].id]

(* ------------------------------ the store ----------------------------- *)

\* A table that does not exist.
Absent == [exists |-> FALSE, nameCol |-> "name", descCol |-> "description",
           rows |-> {}, seq |-> 1]

\* CREATE TABLE ... (id SERIAL PRIMARY KEY, name VARCHAR(255) NOT NULL,
\* description TEXT): a fresh table and a fresh sequence starting at 1.
NewTable == [exists |-> TRUE, nameCol |-> "name", descCol |-> "description",
             rows |-> {}, seq |-> 1]

\* CREATE TABLE IF NOT EXISTS favorite_things (...)
CreateTableIfNotExists(t) == IF t.exists THEN t ELSE NewTable

\* DROP TABLE IF EXISTS favorite_things: the table, its rows and the
\* sequence owned by its id column are gone.
DropNotCommitted(t) == t

DropTableIfExists(t) == Absent

\* The statements name the columns name and description.
HasCurrentColumns(t) ==
    t.exists /\ t.nameCol = "name" /\ t.descCol = "description"

\* Made of blanks only (the empty text included).
OnlyBlanks(s) == s = Rep(" ", Len(s))

\* name VARCHAR(255): a longer value is refused, unless the characters past
\* the limit are all blanks; then it is stored cut to the limit.
FitsColumn(n) ==
    Len(n) <= VarcharLimit \/ OnlyBlanks(SubSeq(n, VarcharLimit + 1, Len(n)))

StoredName(n) == IF Len(n) > VarcharLimit THEN SubSeq(n, 1, VarcharLimit) ELSE n

\* INSERT INTO favorite_things (name, description) VALUES (:n, :d) is accepted.
InsertAccepted(t, n) == HasCurrentColumns(t) /\ FitsColumn(n)

\* nextval() of the sequence behind id SERIAL: the id an INSERT is given.
NextValLowestFree(t) ==
    CHOOSE i \in 1..t.seq : /\ \A r \in t.rows : r.id # i
                            /\ \A j \in 1..(i - 1) : \E r \in t.rows : r.id = j

NextVal(t) == t.seq

\* The sequence moves on when an id is taken, and is not rolled back: a failed
\* INSERT may have used up an id.
BurnId(t) == [t EXCEPT !.seq = @ + 1]

\* The row an executed INSERT holds until its commit.
NewRow(t, n, d) == [id |-> NextVal(t), name |-> StoredName(n), description |-> d]

\* No INSERT is waiting for its commit.
NoRow == [id |-> 0, name |-> "", description |-> ""]

\* s.commit() of an INSERT: the row becomes visible.
CommitRow(t, row) == [t EXCEPT !.rows = @ \cup {row}]

\* DELETE FROM favorite_things WHERE id = :id
DeleteRowUpTo(t, i) == [t EXCEPT !.rows = {r \in @ : r.id > i}]

DeleteRow(t, i) == [t EXCEPT !.rows = {r \in @ : r.id # i}]

\* ORDER BY id DESC
RECURSIVE OrderByIdDesc(_)
OrderByIdDesc(S) ==
    IF S = {} THEN <<>>
    ELSE LET m == CHOOSE r \in S : \A q \in S : q.id <= r.id
         IN  <<m>> \o OrderByIdDesc(S \ {m})

\* SELECT id, name, description FROM favorite_things ORDER BY id DESC
SelectAll(t) == OrderByIdDesc(t.rows)

\* ALTER TABLE favorite_things RENAME COLUMN nazwa TO name; ... opis TO description
RenameColumns(t) == [t EXCEPT !.nameCol = "name", !.descCol = "description"]

\* DROP TABLE IF EXISTS favorite_things; ALTER TABLE ulubione_rzeczy RENAME TO
\* favorite_things: the legacy table, with its rows and its sequence, takes the
\* place of whatever favorite_things was.
RenameLegacyTable(d) == [fav |-> d.old, old |-> Absent]

Ids(rows) == {r.id : r \in rows}

\* The greatest of a set of ids, 0 for none.
MaxOf(S) == IF S = {} THEN 0 ELSE CHOOSE i \in S : \A j \in S : j <= i

Greater(i, j) == IF i > j THEN i ELSE j

StoreRows(d) == IF d.fav.exists THEN d.fav.rows ELSE {}

(* ------------------------------- state -------------------------------- *)

VARIABLES
    db,                     \* the store: [fav |-> table favorite_things, old |-> table ulubione_rzeczy]
    pc,                     \* the section of the script the pass is at
    click,                  \* the widget whose click started the pass
    new_thing_name,         \* value of the "Thing name:" input in this pass
    new_thing_description,  \* value of the "Thing description:" input in this pass
    favorite_things_df,     \* the rows read by the READ section of this pass
    selected_option_str,    \* the option selected when the remove button was clicked
    thing_id_to_delete,     \* the id it resolves to (0 while unbound)
    shown,                  \* the rows st.dataframe put on the page in this pass
    signals,                \* the st.success/warning/error/info messages of this pass
    executed,               \* the SQL statements this pass has sent, with their outcome
    rendered,               \* the widgets this pass has put on the page
    issued,                 \* history: greatest id an INSERT was given for a row of the present
                            \* favorite_things table
    everIssued,             \* history: greatest id ever given to a row of favorite_things, resets
                            \* notwithstanding, counted from the table the migration put in place
    pending,                \* the row this session's INSERT has executed and not yet committed
    other_pending,          \* the same for the other session
    dirty,                  \* history: the other session has changed the table since this
                            \* session last read the list
    resetPhase              \* history: "dropped" after this session's reset of a non-empty
                            \* table, then "initfailed" / "recreated" by the initializer runs
                            \* after it, and "none" again from the next pass on

vars == <<db, pc, click, new_thing_name, new_thing_description, favorite_things_df,
          selected_option_str, thing_id_to_delete, shown, signals, executed, rendered,
          pending, other_pending, issued, everIssued, dirty, resetPhase>>

store == <<db, issued, everIssued>>
inflight == <<pending, other_pending>>
choice == <<selected_option_str, thing_id_to_delete>>
page == <<favorite_things_df, choice, shown, rendered>>
form == <<new_thing_name, new_thing_description>>

Sig(kind, text, arg) == [kind |-> kind, text |-> text, arg |-> arg]

Ran(stmt, ok) == [stmt |-> stmt, ok |-> ok]

LegacyRow == [id |-> 1, name |-> "a", description |-> "d"]

CurrentRow == [id |-> 1, name |-> " ", description |-> ""]

\* The stores the application can be started on: with or without the legacy
\* table, and with favorite_things absent, empty, filled, or still carrying
\* one or both legacy column names.
InitOld ==
    {Absent,
     [exists |-> TRUE, nameCol |-> "nazwa", descCol |-> "opis", rows |-> {LegacyRow}, seq |-> 2],
     [exists |-> TRUE, nameCol |-> "name", descCol |-> "description", rows |-> {LegacyRow}, seq |-> 2]}

InitFav ==
    {Absent,
     NewTable,
     [exists |-> TRUE, nameCol |-> "name", descCol |-> "description", rows |-> {CurrentRow}, seq |-> 2],
     [exists |-> TRUE, nameCol |-> "nazwa", descCol |-> "opis", rows |-> {CurrentRow}, seq |-> 2],
     [exists |-> TRUE, nameCol |-> "nazwa", descCol |-> "description", rows |-> {CurrentRow}, seq |-> 2]}

Init ==
    /\ db \in [fav : InitFav, old : InitOld]
    /\ issued = MaxOf(Ids(db.fav.rows))
    /\ everIssued = MaxOf(Ids(db.fav.rows))
    /\ pc = "connect"
    /\ click = "none"
    /\ new_thing_name = ""
    /\ new_thing_description = ""
    /\ favorite_things_df = <<>>
    /\ selected_option_str = ""
    /\ thing_id_to_delete = 0
    /\ shown = <<>>
    /\ signals = {}
    /\ executed = {}
    /\ rendered = {}
    /\ pending = NoRow
    /\ other_pending = NoRow
    /\ dirty = FALSE
    /\ resetPhase = "none"

(* ------------------------- the run of a pass --------------------------- *)

\* The script starts over: nothing is on the page, no name is bound yet.
BeginPass(c) ==
    /\ pc' = "connect"
    /\ click' = c
    /\ new_thing_name' = ""
    /\ new_thing_description' = ""
    /\ favorite_things_df' = <<>>
    /\ selected_option_str' = ""
    /\ thing_id_to_delete' = 0
    /\ shown' = <<>>
    /\ signals' = {}
    /\ executed' = {}
    /\ rendered' = {}
    /\ resetPhase' = IF resetPhase = "recreated" THEN "none" ELSE resetPhase

\* The user loads the page again or clicks a button the last pass rendered.
UserInteracts(c) ==
    /\ pc = "idle"
    /\ c = "add" => "add_form" \in rendered
    /\ c = "remove" => "remove_button" \in rendered
    /\ c = "reset" => "reset_button" \in rendered
    /\ BeginPass(c)
    /\ UNCHANGED <<inflight, store, dirty>>

\* st.rerun()
Rerun ==
    /\ pc = "rerun"
    /\ BeginPass("none")
    /\ UNCHANGED <<inflight, store, dirty>>

\* conn = st.connection("postgresql", type="sql")
ConnectOK ==
    /\ pc = "connect"
    /\ pc' = "migrate"
    /\ UNCHANGED <<inflight, store, click, form, page, signals, executed, dirty, resetPhase>>

ConnectError ==
    /\ pc = "connect"
    /\ signals' = signals \cup {Sig("error", "connect", ""), Sig("error", "connect_detail", "")}
    /\ pc' = "idle"
    /\ UNCHANGED <<inflight, store, click, form, page, executed, dirty, resetPhase>>

(* ONE-TIME DATA MIGRATION SCRIPT *)

\* One of the two EXISTS checks raises: nothing was announced or changed, the
\* error is shown and the script stops.
MigrateError ==
    /\ pc = "migrate"
    /\ executed' = executed \cup {Ran("MIGRATE", FALSE)}
    /\ signals' = signals \cup {Sig("error", "migration", "")}
    /\ pc' = "idle"
    /\ UNCHANGED <<inflight, store, click, form, page, dirty, resetPhase>>

\* Step 1: the check finds the table ulubione_rzeczy and the step is announced.
MigrateTableFound ==
    /\ pc = "migrate"
    /\ db.old.exists
    /\ signals' = signals \cup {Sig("warning", "migrating_table", "")}
    /\ pc' = "migrate_table"
    /\ UNCHANGED <<inflight, store, click, form, page, executed, dirty, resetPhase>>

\* Its DROP, its RENAME or its commit raises (the RENAME always does when the
\* other session has renamed the table meanwhile): the transaction is rolled
\* back, the error is shown and the script stops.
MigrateTableError ==
    /\ pc = "migrate_table"
    /\ executed' = executed \cup {Ran("MIGRATE", FALSE)}
    /\ signals' = signals \cup {Sig("error", "migration", "")}
    /\ pc' = "idle"
    /\ UNCHANGED <<inflight, store, click, form, page, dirty, resetPhase>>

\* DROP, RENAME and commit go through.
MigrateTable ==
    /\ pc = "migrate_table"
    /\ db.old.exists
    /\ other_pending = NoRow
    /\ db' = RenameLegacyTable(db)
    /\ issued' = MaxOf(Ids(db.old.rows))
    /\ everIssued' = MaxOf(Ids(db.old.rows))
    /\ executed' = executed \cup {Ran("RENAME_TABLE", TRUE)}
    /\ signals' = signals \cup {Sig("success", "table_renamed", "")}
    /\ pc' = "rerun"
    /\ UNCHANGED <<inflight, click, form, page, dirty, resetPhase>>

\* Step 2: the check finds a column nazwa in favorite_things and the step is
\* announced.
MigrateColumnsFound ==
    /\ pc = "migrate"
    /\ ~db.old.exists
    /\ db.fav.exists /\ db.fav.nameCol = "nazwa"
    /\ signals' = signals \cup {Sig("warning", "migrating_columns", "")}
    /\ pc' = "migrate_columns"
    /\ UNCHANGED <<inflight, store, click, form, page, executed, dirty, resetPhase>>

\* Both ALTERs and the commit go through: the columns nazwa and opis are there.
MigrateColumns ==
    /\ pc = "migrate_columns"
    /\ db.fav.exists /\ db.fav.nameCol = "nazwa" /\ db.fav.descCol = "opis"
    /\ other_pending = NoRow
    /\ db' = [db EXCEPT !.fav = RenameColumns(@)]
    /\ executed' = executed \cup {Ran("RENAME_COLUMNS", TRUE)}
    /\ signals' = signals \cup {Sig("success", "columns_renamed", "")}
    /\ pc' = "rerun"
    /\ UNCHANGED <<inflight, issued, everIssued, click, form, page, dirty, resetPhase>>

\* An ALTER or the commit raises (an ALTER always does when its column or the
\* table is not there, or no longer there): the transaction is rolled back, the
\* error is shown and the script stops.
MigrateColumnsError ==
    /\ pc = "migrate_columns"
    /\ executed' = executed \cup {Ran("RENAME_COLUMNS", FALSE)}
    /\ signals' = signals \cup {Sig("error", "migration", "")}
    /\ pc' = "idle"
    /\ UNCHANGED <<inflight, store, click, form, page, dirty, resetPhase>>

\* Neither legacy name is found.
MigrateNothing ==
    /\ pc = "migrate"
    /\ ~db.old.exists
    /\ ~(db.fav.exists /\ db.fav.nameCol = "nazwa")
    /\ pc' = "init"
    /\ UNCHANGED <<inflight, store, click, form, page, signals, executed, dirty, resetPhase>>

(* create_table_if_not_exists() *)

InitializerRan(ok) ==
    IF resetPhase \in {"dropped", "initfailed"}
    THEN (IF ok THEN "recreated" ELSE "initfailed")
    ELSE resetPhase

CreateTableOK ==
    /\ pc = "init"
    /\ db' = [db EXCEPT !.fav = CreateTableIfNotExists(@)]
    /\ issued' = IF db.fav.exists THEN issued ELSE 0
    /\ executed' = executed \cup {Ran("CREATE_TABLE", TRUE)}
    /\ resetPhase' = InitializerRan(TRUE)
    /\ pc' = "add"
    /\ UNCHANGED <<inflight, everIssued, click, form, page, signals, dirty>>

\* With st.stop() in the handler, as in the two blocks before it.
CreateTableErrorStops ==
    /\ pc = "init"
    /\ executed' = executed \cup {Ran("CREATE_TABLE", FALSE)}
    /\ signals' = signals \cup {Sig("error", "create_table", "")}
    /\ resetPhase' = InitializerRan(FALSE)
    /\ pc' = "idle"
    /\ UNCHANGED <<inflight, store, click, form, page, dirty>>

\* except Exception: st.error(...), and the script goes on.
CreateTableError ==
    /\ pc = "init"
    /\ executed' = executed \cup {Ran("CREATE_TABLE", FALSE)}
    /\ signals' = signals \cup {Sig("error", "create_table", "")}
    /\ resetPhase' = InitializerRan(FALSE)
    /\ pc' = "add"
    /\ UNCHANGED <<inflight, store, click, form, page, dirty>>

(* CREATE section *)

\* The form is rendered; it was not submitted in this pass.
AddNotSubmitted ==
    /\ pc = "add"
    /\ click # "add"
    /\ rendered' = rendered \cup {"add_form"}
    /\ pc' = "read"
    /\ UNCHANGED <<inflight, store, click, form, favorite_things_df, choice, shown, signals, executed, dirty, resetPhase>>

\* if new_thing_name: ... else: st.warning("Thing name cannot be empty.")
AddRejected(n, d) ==
    /\ pc = "add"
    /\ click = "add"
    /\ ~Truthy(n)
    /\ new_thing_name' = n
    /\ new_thing_description' = d
    /\ rendered' = rendered \cup {"add_form"}
    /\ signals' = signals \cup {Sig("warning", "empty_name", "")}
    /\ pc' = "read"
    /\ UNCHANGED <<inflight, store, click, favorite_things_df, choice, shown, executed, dirty, resetPhase>>

\* s.execute(INSERT ...): the row has its id and waits for the commit.
AddExecuted(n, d) ==
    /\ pc = "add"
    /\ click = "add"
    /\ Truthy(n)
    /\ InsertAccepted(db.fav, n)
    /\ db.fav.seq <= MaxId
    /\ new_thing_name' = n
    /\ new_thing_description' = d
    /\ rendered' = rendered \cup {"add_form"}
    /\ pending' = NewRow(db.fav, n, d)
    /\ db' = [db EXCEPT !.fav = BurnId(@)]
    /\ issued' = Greater(issued, pending'.id)
    /\ everIssued' = Greater(everIssued, pending'.id)
    /\ pc' = "add_commit"
    /\ UNCHANGED <<other_pending, click, favorite_things_df, choice, shown, signals, executed,
                   dirty, resetPhase>>

\* s.commit(), then st.success with the name as typed.
AddInserted ==
    /\ pc = "add_commit"
    /\ db' = [db EXCEPT !.fav = CommitRow(@, pending)]
    /\ pending' = NoRow
    /\ executed' = executed \cup {Ran("INSERT", TRUE)}
    /\ signals' = signals \cup {Sig("success", "added", new_thing_name)}
    /\ pc' = "read"
    /\ UNCHANGED <<other_pending, issued, everIssued, click, form, page, dirty, resetPhase>>

\* s.commit() raises: the row is not stored, its id is used up.
AddCommitError ==
    /\ pc = "add_commit"
    /\ pending' = NoRow
    /\ executed' = executed \cup {Ran("INSERT", FALSE)}
    /\ signals' = signals \cup {Sig("error", "add", "")}
    /\ pc' = "read"
    /\ UNCHANGED <<other_pending, store, click, form, page, dirty, resetPhase>>

\* s.execute(INSERT ...) raises; no row is stored.
AddError(n, d, burn) ==
    /\ pc = "add"
    /\ click = "add"
    /\ Truthy(n)
    /\ burn => (HasCurrentColumns(db.fav) /\ db.fav.seq <= MaxId)
    /\ new_thing_name' = n
    /\ new_thing_description' = d
    /\ rendered' = rendered \cup {"add_form"}
    /\ db' = IF burn THEN [db EXCEPT !.fav = BurnId(@)] ELSE db
    /\ executed' = executed \cup {Ran("INSERT", FALSE)}
    /\ signals' = signals \cup {Sig("error", "add", "")}
    /\ pc' = "read"
    /\ UNCHANGED <<inflight, issued, everIssued, click, favorite_things_df, choice, shown, dirty,
                   resetPhase>>

(* READ section *)

ReadOK ==
    /\ pc = "read"
    /\ HasCurrentColumns(db.fav)
    /\ favorite_things_df' = SelectAll(db.fav)
    /\ executed' = executed \cup {Ran("SELECT", TRUE)}
    /\ IF favorite_things_df' # <<>>
       THEN /\ shown' = favorite_things_df'
            /\ rendered' = rendered \cup {"dataframe"}
            /\ signals' = signals
       ELSE /\ shown' = shown
            /\ rendered' = rendered
            /\ signals' = signals \cup {Sig("info", "no_things_yet", "")}
    /\ dirty' = FALSE
    /\ pc' = "delete"
    /\ UNCHANGED <<inflight, store, click, form, choice, resetPhase>>

\* Without the fallback the name favorite_things_df stays unbound and the
\* DELETE section raises NameError: the script ends there.
ReadErrorNoFallback ==
    /\ pc = "read"
    /\ executed' = executed \cup {Ran("SELECT", FALSE)}
    /\ signals' = signals \cup {Sig("error", "read", ""), Sig("error", "NameError", "")}
    /\ pc' = "idle"
    /\ UNCHANGED <<inflight, store, click, form, page, dirty, resetPhase>>

\* except Exception: st.error(...); favorite_things_df = pd.DataFrame()
ReadError ==
    /\ pc = "read"
    /\ favorite_things_df' = <<>>
    /\ executed' = executed \cup {Ran("SELECT", FALSE)}
    /\ signals' = signals \cup {Sig("error", "read", "")}
    /\ pc' = "delete"
    /\ UNCHANGED <<inflight, store, click, form, choice, shown, rendered, dirty, resetPhase>>

(* DELETE section *)

\* The DataFrame is empty (nothing was read, or the read failed).
RemoveNothing ==
    /\ pc = "delete"
    /\ favorite_things_df = <<>> \/ DOMAIN DeleteOptions(favorite_things_df) = {}
    /\ signals' = signals \cup {Sig("info", "nothing_to_remove", "")}
    /\ pc' = "dev"
    /\ UNCHANGED <<inflight, store, click, form, page, executed, dirty, resetPhase>>

\* The selector and the button are rendered; the button was not clicked.
RemoveNotClicked ==
    /\ pc = "delete"
    /\ favorite_things_df # <<>>
    /\ DOMAIN DeleteOptions(favorite_things_df) # {}
    /\ click # "remove"
    /\ rendered' = rendered \cup {"selectbox", "remove_button"}
    /\ pc' = "dev"
    /\ UNCHANGED <<inflight, store, click, form, favorite_things_df, choice, shown, signals, executed, dirty, resetPhase>>

\* Without the rerun the pass goes on with the list it read before the DELETE.
RemoveDeletedNoRerun(label) ==
    /\ pc = "delete"
    /\ favorite_things_df # <<>>
    /\ label \in DOMAIN DeleteOptions(favorite_things_df)
    /\ click = "remove"
    /\ Truthy(label)
    /\ db.fav.exists
    /\ selected_option_str' = label
    /\ thing_id_to_delete' = DeleteOptions(favorite_things_df)[label]
    /\ db' = [db EXCEPT !.fav = DeleteRow(@, thing_id_to_delete')]
    /\ rendered' = rendered \cup {"selectbox", "remove_button"}
    /\ executed' = executed \cup {Ran("DELETE", TRUE)}
    /\ signals' = signals \cup {Sig("success", "removed", SplitName(label))}
    /\ pc' = "dev"
    /\ UNCHANGED <<inflight, issued, everIssued, click, form, favorite_things_df, shown, dirty,
                   resetPhase>>

\* The button was clicked with `label` selected, the DELETE is committed
\* (whether or not it matched a row), and the script asks for a rerun.
RemoveDeleted(label) ==
    /\ pc = "delete"
    /\ favorite_things_df # <<>>
    /\ label \in DOMAIN DeleteOptions(favorite_things_df)
    /\ click = "remove"
    /\ Truthy(label)
    /\ db.fav.exists
    /\ selected_option_str' = label
    /\ thing_id_to_delete' = DeleteOptions(favorite_things_df)[label]
    /\ db' = [db EXCEPT !.fav = DeleteRow(@, thing_id_to_delete')]
    /\ rendered' = rendered \cup {"selectbox", "remove_button"}
    /\ executed' = executed \cup {Ran("DELETE", TRUE)}
    /\ signals' = signals \cup {Sig("success", "removed", SplitName(label))}
    /\ pc' = "rerun"
    /\ UNCHANGED <<inflight, issued, everIssued, click, form, favorite_things_df, shown, dirty,
                   resetPhase>>

\* The button was clicked and nothing is deleted: the DELETE raises, or the
\* selected option is falsy.
RemoveRefused(label) ==
    /\ pc = "delete"
    /\ favorite_things_df # <<>>
    /\ label \in DOMAIN DeleteOptions(favorite_things_df)
    /\ click = "remove"
    /\ selected_option_str' = label
    /\ IF Truthy(label)
       THEN /\ thing_id_to_delete' = DeleteOptions(favorite_things_df)[label]
            /\ executed' = executed \cup {Ran("DELETE", FALSE)}
            /\ signals' = signals \cup {Sig("error", "remove", "")}
       ELSE /\ thing_id_to_delete' = thing_id_to_delete
            /\ executed' = executed
            /\ signals' = signals \cup {Sig("warning", "nothing_selected", "")}
    /\ rendered' = rendered \cup {"selectbox", "remove_button"}
    /\ pc' = "dev"
    /\ UNCHANGED <<inflight, store, click, form, favorite_things_df, shown, dirty, resetPhase>>

(* Developer Options *)

ResetNotClicked ==
    /\ pc = "dev"
    /\ click # "reset"
    /\ rendered' = rendered \cup {"reset_button"}
    /\ pc' = "idle"
    /\ UNCHANGED <<inflight, store, click, form, favorite_things_df, choice, shown, signals, executed, dirty, resetPhase>>

\* The DROP (which waits for an INSERT of the other session that holds the
\* table) is committed and st.stop() ends the pass.
ResetDropped ==
    /\ pc = "dev"
    /\ click = "reset"
    /\ other_pending = NoRow
    /\ db' = [db EXCEPT !.fav = DropTableIfExists(@)]
    /\ issued' = 0
    /\ resetPhase' = IF StoreRows(db) # {} THEN "dropped" ELSE resetPhase
    /\ rendered' = rendered \cup {"reset_button"}
    /\ executed' = executed \cup {Ran("DROP", TRUE)}
    /\ signals' = signals \cup {Sig("success", "dropped", ""), Sig("info", "refresh", "")}
    /\ pc' = "idle"
    /\ UNCHANGED <<inflight, everIssued, click, form, favorite_things_df, choice, shown, dirty>>

ResetError ==
    /\ pc = "dev"
    /\ click = "reset"
    /\ rendered' = rendered \cup {"reset_button"}
    /\ executed' = executed \cup {Ran("DROP", FALSE)}
    /\ signals' = signals \cup {Sig("error", "reset", "")}
    /\ pc' = "idle"
    /\ UNCHANGED <<inflight, store, click, form, favorite_things_df, choice, shown, dirty, resetPhase>>

(* Another session of the application: the statements it executes and
   commits, at any point of this session's pass or between two passes *)

\* Its pass has got past the migration block: neither legacy name is found.
Migrated(d) == ~d.old.exists /\ ~(d.fav.exists /\ d.fav.nameCol = "nazwa")

\* Its CREATE section executes an INSERT.
OtherSessionExecutesInsert(n, d) ==
    /\ Migrated(db)
    /\ other_pending = NoRow
    /\ Truthy(n)
    /\ InsertAccepted(db.fav, n)
    /\ db.fav.seq <= MaxId
    /\ other_pending' = NewRow(db.fav, n, d)
    /\ db' = [db EXCEPT !.fav = BurnId(@)]
    /\ issued' = Greater(issued, other_pending'.id)
    /\ everIssued' = Greater(everIssued, other_pending'.id)
    /\ UNCHANGED <<pending, pc, click, form, page, signals, executed, dirty, resetPhase>>

\* It commits the INSERT.
OtherSessionInserts ==
    /\ other_pending # NoRow
    /\ db' = [db EXCEPT !.fav = CommitRow(@, other_pending)]
    /\ other_pending' = NoRow
    /\ dirty' = TRUE
    /\ UNCHANGED <<pending, issued, everIssued, pc, click, form, page, signals, executed,
                   resetPhase>>

\* Its INSERT raises after an id was taken from the sequence, or the commit
\* of its INSERT raises.
OtherSessionInsertFails ==
    /\ Migrated(db)
    /\ IF other_pending # NoRow
       THEN /\ other_pending' = NoRow
            /\ db' = db
       ELSE /\ HasCurrentColumns(db.fav)
            /\ db.fav.seq <= MaxId
            /\ db' = [db EXCEPT !.fav = BurnId(@)]
            /\ other_pending' = other_pending
    /\ UNCHANGED <<pending, issued, everIssued, pc, click, form, page, signals, executed,
                   dirty, resetPhase>>

\* Its DELETE section commits a DELETE of a row it has read.
OtherSessionDeletes(i) ==
    /\ Migrated(db)
    /\ other_pending = NoRow
    /\ db.fav.exists
    /\ i \in Ids(db.fav.rows)
    /\ db' = [db EXCEPT !.fav = DeleteRow(@, i)]
    /\ dirty' = TRUE
    /\ UNCHANGED <<inflight, issued, everIssued, pc, click, form, page, signals, executed,
                   resetPhase>>

\* Its reset handler commits the DROP (which waits for an INSERT of this
\* session that holds the table).
OtherSessionResets ==
    /\ Migrated(db)
    /\ other_pending = NoRow
    /\ pending = NoRow
    /\ db.fav.exists
    /\ db' = [db EXCEPT !.fav = DropTableIfExists(@)]
    /\ issued' = 0
    /\ dirty' = TRUE
    /\ UNCHANGED <<inflight, everIssued, pc, click, form, page, signals, executed, resetPhase>>

\* Its create_table_if_not_exists() creates the table.
OtherSessionInitializes ==
    /\ Migrated(db)
    /\ other_pending = NoRow
    /\ ~db.fav.exists
    /\ db' = [db EXCEPT !.fav = CreateTableIfNotExists(@)]
    /\ issued' = 0
    /\ resetPhase' = InitializerRan(TRUE)
    /\ dirty' = TRUE
    /\ UNCHANGED <<inflight, everIssued, pc, click, form, page, signals, executed>>

\* Its migration block commits step 1.
OtherSessionMigratesTable ==
    /\ db.old.exists
    /\ other_pending = NoRow
    /\ db' = RenameLegacyTable(db)
    /\ issued' = MaxOf(Ids(db.old.rows))
    /\ everIssued' = MaxOf(Ids(db.old.rows))
    /\ dirty' = TRUE
    /\ UNCHANGED <<inflight, pc, click, form, page, signals, executed, resetPhase>>

\* Its migration block commits step 2.
OtherSessionMigratesColumns ==
    /\ ~db.old.exists
    /\ other_pending = NoRow
    /\ db.fav.exists /\ db.fav.nameCol = "nazwa" /\ db.fav.descCol = "opis"
    /\ db' = [db EXCEPT !.fav = RenameColumns(@)]
    /\ dirty' = TRUE
    /\ UNCHANGED <<inflight, issued, everIssued, pc, click, form, page, signals, executed,
                   resetPhase>>

(* ---------------------------- specification --------------------------- *)

Clicks == {"none", "add", "remove", "reset"}

\* The names a row can hold and the options the selectbox can offer.
StoredNames ==
    {LegacyRow.name, CurrentRow.name} \cup {StoredName(f.name) : f \in Submissions}

Labels == {Label(r) : r \in [id : 1..MaxId, name : StoredNames, description : {""}]}

Next ==
    \/ \E c \in Clicks : UserInteracts(c)
    \/ Rerun
    \/ ConnectOK
    \/ ConnectError
    \/ MigrateError
    \/ MigrateTableFound
    \/ MigrateTableError
    \/ MigrateTable
    \/ MigrateColumnsFound
    \/ MigrateColumnsError
    \/ MigrateColumns
    \/ MigrateNothing
    \/ CreateTableOK
    \/ CreateTableError
    \/ AddNotSubmitted
    \/ \E f \in Submissions : AddRejected(f.name, f.description)
    \/ \E f \in Submissions : AddExecuted(f.name, f.description)
    \/ AddInserted
    \/ AddCommitError
    \/ \E f \in Submissions, burn \in BOOLEAN : AddError(f.name, f.description, burn)
    \/ ReadOK
    \/ ReadError
    \/ RemoveNothing
    \/ RemoveNotClicked
    \/ \E label \in Labels : RemoveDeleted(label)
    \/ \E label \in Labels : RemoveRefused(label)
    \/ ResetNotClicked
    \/ ResetDropped
    \/ ResetError
    \/ \E f \in Submissions : OtherSessionExecutesInsert(f.name, f.description)
    \/ OtherSessionInserts
    \/ OtherSessionInsertFails
    \/ \E i \in 1..MaxId : OtherSessionDeletes(i)
    \/ OtherSessionResets
    \/ OtherSessionInitializes
    \/ OtherSessionMigratesTable
    \/ OtherSessionMigratesColumns

Spec == Init /\ [][Next]_vars

(* ------------------------------- claims -------------------------------- *)

\* What a List Operation returns on store d.
Listing(d) == SelectAll(d.fav)

\* seq holds exactly the rows of S, highest id first.
IsListingOf(seq, S) ==
    /\ Len(seq) = Cardinality(S)
    /\ {seq[i] : i \in DOMAIN seq} = S
    /\ \A i, j \in DOMAIN seq : i < j => seq[i].id > seq[j].id

\* seq without the record whose id is x.
Without(seq, x) == SelectSeq(seq, LAMBDA r : r.id # x)

\* The CREATE section of a pass whose form was submitted has just ended.
CreateAttempted == pc \in {"add", "add_commit"} /\ pc' = "read" /\ click = "add"

\* The rows an INSERT's commit has added in this step.
Inserted ==
    IF db.fav.exists /\ db'.fav.exists /\ db'.old = db.old
    THEN db'.fav.rows \ db.fav.rows
    ELSE {}

\* The ids given in this step to an INSERT that waits for its commit.
Handed ==
    {r.id : r \in ({pending', other_pending'} \ {pending, other_pending, NoRow})}

\* The statements this step has sent.
Sent == executed' \ executed

CrudStatements == {"INSERT", "SELECT", "DELETE"}

\* C1 (as stated): a create with an empty or whitespace-only name inserts no
\* row, leaves the listing as it was and yields the warning.
C1_BlankNameRejected ==
    [][(CreateAttempted /\ OnlyBlanks(new_thing_name'))
         => /\ StoreRows(db') = StoreRows(db)
            /\ Listing(db') = Listing(db)
            /\ Sig("warning", "empty_name", "") \in signals']_vars

\* C1 (amended): a create with the empty name inserts no row, sends no
\* statement, leaves the listing as it was and yields the warning.
C1_EmptyNameRejected ==
    [][(CreateAttempted /\ new_thing_name' = "")
         => /\ db' = db
            /\ Listing(db') = Listing(db)
            /\ Sent = {}
            /\ Sig("warning", "empty_name", "") \in signals']_vars

\* A whitespace-only name was submitted and its row is stored.
C1_BlankNameStored ==
    /\ pc = "read" /\ click = "add" /\ new_thing_name = " "
    /\ Ran("INSERT", TRUE) \in executed
    /\ \E r \in StoreRows(db) : r.name = " " /\ r.id = issued

\* C1 witness: a submit with the empty name was rejected while rows are stored.
C1_EmptyNameSubmitted ==
    /\ pc = "read" /\ click = "add" /\ new_thing_name = ""
    /\ Sig("warning", "empty_name", "") \in signals
    /\ StoreRows(db) # {}

\* C2 (as stated): the id given to a newly created record is greater than
\* every id ever given before, to records destroyed by a reset included.
C2_IdsNeverReused ==
    [][\A i \in Handed : i > everIssued]_vars

\* C2 (amended): the id given to a newly created record is greater than every
\* id given before for a record of the same table, stored, deleted or still
\* waiting for its commit; and the record is stored under that id.
C2_IdsNotReusedWithinTable ==
    [][/\ \A i \in Handed :
             /\ i > issued
             /\ i \notin Ids(db.fav.rows) \cup {pending.id, other_pending.id}
       /\ \A r \in Inserted :
             /\ r \in {pending, other_pending}
             /\ r.id <= issued
             /\ r.id \notin Ids(db.fav.rows)]_vars

\* C2 witness: a record was created after a smaller id had been given up
\* (its row deleted, or the id used up by a failed INSERT).
C2_CreatedAfterEarlier ==
    /\ pc = "read" /\ Ran("INSERT", TRUE) \in executed
    /\ other_pending = NoRow
    /\ \E r \in StoreRows(db) : r.id = issued /\ r.id > Cardinality(StoreRows(db))

\* The commits of two INSERTs in the other order than their ids: this
\* session's row waits for its commit while a row with a greater id is stored.
C2_LowerIdCommitsLater ==
    /\ pc = "add_commit"
    /\ \E r \in StoreRows(db) : r.id > pending.id

\* C3 (as stated): at the end of a pass that read the list, with no commit
\* of another session since, the page shows the rows of the store, highest
\* id first.
C3_ShownIsStoreContent ==
    (pc = "idle" /\ Ran("SELECT", TRUE) \in executed /\ ~dirty)
        => IsListingOf(shown, StoreRows(db))

\* C3 (amended): the same, for a pass that did not drop the table.
C3_ShownIsStoreContentUnlessReset ==
    (pc = "idle" /\ Ran("SELECT", TRUE) \in executed /\ ~dirty
       /\ Ran("DROP", TRUE) \notin executed)
        => IsListingOf(shown, StoreRows(db))

\* C3 witness: a pass that created a record ends with two rows on the page.
C3_ShownAfterCreate ==
    /\ pc = "idle" /\ ~dirty
    /\ Ran("INSERT", TRUE) \in executed /\ Ran("SELECT", TRUE) \in executed
    /\ Len(shown) >= 2

\* C4 (as stated): when the initializer's statement raises, the error is
\* shown and the pass executes no Create, List, Delete or Reset.
C4_InitializerFailureIsFatal ==
    Ran("CREATE_TABLE", FALSE) \in executed
        => /\ Sig("error", "create_table", "") \in signals
           /\ \A e \in executed : e.stmt \notin CrudStatements \cup {"DROP"}

\* C4 (amended): when the initializer's statement raises, the error is shown
\* and the pass goes on: the form is rendered and the List is executed.
C4_InitializerFailureIsShown ==
    Ran("CREATE_TABLE", FALSE) \in executed
        => /\ Sig("error", "create_table", "") \in signals
           /\ pc # "init"
           /\ pc # "add" => "add_form" \in rendered
           /\ pc \notin {"add", "add_commit", "read"} => \E e \in executed : e.stmt = "SELECT"

\* C4 witness: a pass whose initializer failed has read the list.
C4_ListAfterInitializerFailure ==
    /\ pc = "idle"
    /\ Ran("CREATE_TABLE", FALSE) \in executed
    /\ Ran("SELECT", TRUE) \in executed

\* C5: a committed delete of id X takes exactly the record X out of the
\* listing, the others staying in order; when X is no longer stored the
\* listing is unchanged; either way success is reported.
C5_DeleteRemovesExactlyOne ==
    [][(pc = "delete" /\ pc' = "rerun")
         => LET x == thing_id_to_delete'
                before == Listing(db)
                after == Listing(db')
            IN  /\ \E i \in DOMAIN favorite_things_df :
                      /\ favorite_things_df[i].id = x
                      /\ selected_option_str' = Label(favorite_things_df[i])
                      /\ Sig("success", "removed", favorite_things_df[i].name) \in signals'
                /\ Ran("DELETE", TRUE) \in executed'
                /\ \A i \in DOMAIN after : after[i].id # x
                /\ after = Without(before, x)
                /\ IF x \in Ids(StoreRows(db))
                   THEN Len(after) = Len(before) - 1
                   ELSE after = before]_vars

\* C5 witness: the record selected among two was deleted, the other is left.
C5_OneOfTwoDeleted ==
    /\ pc = "rerun" /\ ~dirty
    /\ Ran("DELETE", TRUE) \in executed
    /\ Len(favorite_things_df) = 2
    /\ Cardinality(StoreRows(db)) = 1
    /\ thing_id_to_delete \notin Ids(StoreRows(db))

\* C5, second case reached: the remove button was clicked and the other
\* session has already deleted every record this pass has read.
C5_SelectedAlreadyRemoved ==
    /\ pc = "delete" /\ click = "remove"
    /\ favorite_things_df # <<>>
    /\ db.fav.exists
    /\ \A i \in DOMAIN favorite_things_df : favorite_things_df[i] \notin db.fav.rows

\* C6 (as stated): a committed create, no other INSERT having been executed
\* since its own, puts a record with exactly the submitted name and
\* description first in the listing, followed by the listing as it was.
C6_CreateThenList ==
    [][(CreateAttempted /\ Ran("INSERT", TRUE) \in executed'
          /\ NextVal(db.fav) = pending.id + 1)
         => LET after == Listing(db')
            IN  /\ Truthy(new_thing_name')
                /\ Len(after) = Len(Listing(db)) + 1
                /\ after[1].name = new_thing_name'
                /\ after[1].description = new_thing_description'
                /\ Tail(after) = Listing(db)
                /\ IsListingOf(after, StoreRows(db'))]_vars

\* C7: the migration destroys no row: the rows of the legacy table and the
\* rows of favorite_things are all in favorite_things after it.
C7_MigrationPreservesRows ==
    [][(pc \in {"migrate_table", "migrate_columns"} /\ pc' = "rerun")
         => (db.old.rows \cup StoreRows(db)) \subseteq StoreRows(db')]_vars

\* C8: in a pass whose list read raised, the error is shown, no record is
\* offered for removal, no DELETE is sent, and the removal notice and the
\* reset option are still rendered.
C8_FailedReadOffersNothing ==
    Ran("SELECT", FALSE) \in executed
        => /\ Sig("error", "read", "") \in signals
           /\ favorite_things_df = <<>>
           /\ rendered \cap {"dataframe", "selectbox", "remove_button"} = {}
           /\ \A e \in executed : e.stmt # "DELETE"
           /\ pc \in {"delete", "dev", "idle"}
           /\ pc # "delete" => Sig("info", "nothing_to_remove", "") \in signals
           /\ pc = "idle" => "reset_button" \in rendered

\* C8 witness: the remove button was clicked, the read failed on a filled
\* table and the pass has ended.
C8_ReadFailedOnRemove ==
    /\ pc = "idle" /\ click = "remove"
    /\ Ran("SELECT", FALSE) \in executed
    /\ StoreRows(db) # {}

\* C9: no stored row has an empty name, whatever was submitted (the stores
\* the application starts on hold no such row: the empty one, and filled ones).
C9_NamesNeverEmpty ==
    \A r \in StoreRows(db) : r.name # ""

\* C9 witness: a created record is stored (its id is above those of the rows
\* the application started on) and a create with the empty name was tried.
C9_RowsStoredAfterEmptyName ==
    /\ \E r \in StoreRows(db) : r.id > 1
    /\ pc = "idle" /\ click = "add" /\ new_thing_name = ""

\* C10: this session's reset of a non-empty table leaves no table and ends
\* the pass; the session sends no Create, List or Delete before the next
\* initializer run; until an initializer run (of either session) has
\* succeeded there is no table and no Create, List or Delete succeeds; and
\* that run yields an existing table whose listing is empty.
C10_ResetClearsAll ==
    [][/\ (resetPhase' = "dropped" /\ Ran("DROP", TRUE) \in Sent)
            => ~db'.fav.exists /\ pc' = "idle"
       /\ resetPhase = "dropped"
            => \A e \in Sent : e.stmt \notin CrudStatements
       /\ resetPhase \in {"dropped", "initfailed"}
            => /\ ~db.fav.exists
               /\ \A e \in Sent : e.stmt \in CrudStatements => ~e.ok
       /\ (resetPhase \in {"dropped", "initfailed"} /\ resetPhase' = "recreated")
            => /\ db'.fav.exists
               /\ Listing(db') = <<>>
       /\ (resetPhase # "recreated" /\ resetPhase' = "recreated" /\ pc' # pc)
            => Ran("CREATE_TABLE", TRUE) \in Sent]_vars

\* C10 witness: this session's initializer has run after its reset of a
\* non-empty table.
C10_RecreatedAfterReset ==
    /\ resetPhase = "recreated" /\ pc = "add"
    /\ Ran("CREATE_TABLE", TRUE) \in executed
    /\ db.fav.exists /\ db.fav.rows = {}

\* The other session dropped the table between this pass's initializer and
\* its CREATE section: the INSERT and the SELECT of the pass fail.
C10_DroppedUnderRunningPass ==
    /\ pc = "add" /\ click = "add"
    /\ Ran("CREATE_TABLE", TRUE) \in executed
    /\ ~db.fav.exists

====
